---- MODULE Spec2Model ----
(***************************************************************************)
(* bilibili_api.utils.initial_state: fetching a page, directly or through  *)
(* a list of public proxies, and extracting the JSON state embedded in it. *)
(*                                                                         *)
(* Text is modelled as a sequence of tokens.  A token stands for a piece   *)
(* of text that the code's regular expressions and parsers treat as a      *)
(* unit:                                                                   *)
(*   "W"   a text matched by  window.__INITIAL_STATE__=                    *)
(*   "N"   <script id="__NEXT_DATA__" type="application/json">             *)
(*   "E"   </script>                                                       *)
(*   "{" "}" ";" ","   the characters themselves                           *)
(*   "a1" "b2" "c3" "z0"   the JSON members "a":1  "b":2  "c":3  "z":0     *)
(*   "bad" a word that is no JSON (invalid)                                *)
(*   "x"   other text without a line break                                 *)
(*   "SP"  a blank, "NL" a line feed, "CRLF" carriage return and line feed *)
(*   "h1" "h2"   host:port lines of the proxy listing                      *)
(***************************************************************************)
EXTENDS Integers, Sequences, FiniteSets, TLC

VARIABLES
    \* one entry per invocation of get_initial_state / get_initial_state_sync
    pc,        \* where the call is: idle, listing, attempt, direct, done, cancelled
    variant,   \* "async" (get_initial_state) or "sync" (get_initial_state_sync)
    env,       \* the value of os.environ["USE_PROXY"] seen by the call
    proxies,   \* the local list `proxies` of fetch_with_proxy
    script,    \* what the network answers to the i-th proxy attempt
    idx,       \* the loop counter i of `for i, proxy in enumerate(proxies, 1)`
    events,    \* the network requests and sleeps of the call, in order
    fetch,     \* what fetch_with_proxy returned or raised
    outcome,   \* what get_initial_state returned or raised
    listing,   \* what the listing service answered to the call
    slept,     \* the seconds the call spent in time.sleep
    cancelled, \* the calls whose task the caller has cancelled
    inflight,  \* the requests each call has sent and not seen the end of
    \* the process the calls run in
    allowed,   \* the calls the application makes
    environ,   \* os.environ["USE_PROXY"]
    \* the content extractor on its own
    content,   \* the argument of _process_content
    extracted, \* its result
    steps,     \* the calls of re.search and json.loads it made
    \* the proxy source on its own
    sourceResp,  \* what the listing service answers
    sourceResult   \* what get_free_proxies(_sync) returned

callVars == <<pc, variant, env, proxies, script, idx, events, fetch, outcome,
              listing, slept, cancelled, inflight>>
setupVars == <<allowed, environ>>
extractVars == <<content, extracted, steps>>
sourceVars == <<sourceResp, sourceResult>>
vars == <<callVars, setupVars, extractVars, sourceVars>>

---------------------------------------------------------------------------
(* Bounds *)

MaxProxies == 3     \* longest proxy list the listing service returns
MaxSegs == 3        \* most text segments a page is put together from
NumCalls == 2       \* invocations of the module

CallIds == 1..NumCalls

---------------------------------------------------------------------------
(* Helpers *)

Range(s) == {s[i] : i \in DOMAIN s}

Min(S) == CHOOSE x \in S : \A y \in S : x <= y

Max(S) == CHOOSE x \in S : \A y \in S : x >= y

RECURSIVE Flatten(_)
Flatten(ss) == IF ss = <<>> THEN <<>> ELSE Head(ss) \o Flatten(Tail(ss))

\* s has t as a contiguous part starting at position i
OccursAt(s, t, i) ==
    /\ i >= 1
    /\ i + Len(t) - 1 <= Len(s)
    /\ SubSeq(s, i, i + Len(t) - 1) = t

Contains(s, t) == \E i \in 1..Len(s) : OccursAt(s, t, i)

---------------------------------------------------------------------------
(* Values returned and raised *)

\* class InitialDataType
INITIAL_STATE == "INITIAL_STATE"
NEXT_DATA == "NEXT_DATA"

\* the messages of the exceptions the module raises
MsgNoProxies == "no proxy available"             \* line 83 / 167
MsgAllFailed == "all proxies failed"             \* line 114 / 200
MsgNotFound == "no initial data in page"         \* line 229
MsgUnparsable == "initial data unparsable"       \* line 237
MsgRequestFailed == "request failed"             \* line 280 / 320

NoResult == [kind |-> "none", exc |-> "", msg |-> <<>>, value |-> {}, type |-> ""]

Return(v, t) == [kind |-> "return", exc |-> "", msg |-> <<>>, value |-> v, type |-> t]

Raise(e, m) == [kind |-> "raise", exc |-> e, msg |-> m, value |-> {}, type |-> ""]

---------------------------------------------------------------------------
(* re and json *)

\* what \s matches and str.strip() removes; "CRLF" is "\r\n"
Whitespace == {"SP", "NL", "CRLF"}

\* tokens holding "\n", which "." does not match
LineBreaks == {"NL", "CRLF"}

NoMatch == [found |-> FALSE, start |-> 0, group1 |-> <<>>]

Match(i, g) == [found |-> TRUE, start |-> i, group1 |-> g]

\* r"window.__INITIAL_STATE__=(\{.*?\});" tried at position i: the positions
\* of a "}" that can end the group.  "." matches no line break.
InitialStateEnds(s, i) ==
    IF i + 1 <= Len(s) /\ s[i] = "W" /\ s[i + 1] = "{"
    THEN {j \in (i + 2)..(Len(s) - 1) :
             /\ s[j] = "}"
             /\ s[j + 1] = ";"
             /\ \A k \in (i + 2)..(j - 1) : s[k] \notin LineBreaks}
    ELSE {}

\* the first pattern with a greedy group, (\{.*\}): the longest capture
SearchInitialStateGreedy(s) ==
    LET starts == {i \in 1..Len(s) : InitialStateEnds(s, i) # {}}
    IN  IF starts = {} THEN NoMatch
        ELSE LET i == Min(starts)
                 j == Max(InitialStateEnds(s, i))
             IN  Match(i, SubSeq(s, i + 1, j))

\* re.search with the first pattern: the leftmost start, and from it the
\* shortest group (.*? is lazy)
SearchInitialState(s) ==
    LET starts == {i \in 1..Len(s) : InitialStateEnds(s, i) # {}}
    IN  IF starts = {} THEN NoMatch
        ELSE LET i == Min(starts)
                 j == Min(InitialStateEnds(s, i))
             IN  Match(i, SubSeq(s, i + 1, j))

\* str.strip() on tokens: leading and trailing white space removed
RECURSIVE LStrip(_)
LStrip(s) == IF s # <<>> /\ Head(s) \in Whitespace THEN LStrip(Tail(s)) ELSE s

RECURSIVE RStrip(_)
RStrip(s) ==
    IF s # <<>> /\ s[Len(s)] \in Whitespace
    THEN RStrip(SubSeq(s, 1, Len(s) - 1))
    ELSE s

Strip(s) == RStrip(LStrip(s))

\* r'<script id="__NEXT_DATA__" type="application/json">\s*(.*?)\s*</script>'
\* tried at position i: the positions of a closing tag that can end the match.
\* \s* takes the white space on both sides, the group what is between, and
\* the group crosses no line break.
NextDataEnds(s, i) ==
    IF i <= Len(s) /\ s[i] = "N"
    THEN {e \in (i + 1)..Len(s) :
             /\ s[e] = "E"
             /\ Range(Strip(SubSeq(s, i + 1, e - 1))) \cap LineBreaks = {}}
    ELSE {}

\* the second pattern with a greedy group, (.*): the longest capture
SearchNextDataGreedy(s) ==
    LET starts == {i \in 1..Len(s) : NextDataEnds(s, i) # {}}
    IN  IF starts = {} THEN NoMatch
        ELSE LET i == Min(starts)
                 e == Max(NextDataEnds(s, i))
             IN  Match(i, Strip(SubSeq(s, i + 1, e - 1)))

\* re.search with the second pattern
SearchNextData(s) ==
    LET starts == {i \in 1..Len(s) : NextDataEnds(s, i) # {}}
    IN  IF starts = {} THEN NoMatch
        ELSE LET i == Min(starts)
                 e == Min(NextDataEnds(s, i))
             IN  Match(i, Strip(SubSeq(s, i + 1, e - 1)))

\* the JSON members of the alphabet
Members == {"a1", "b2", "c3", "z0"}

Key(m) == CASE m = "a1" -> "a" [] m = "b2" -> "b" [] m = "c3" -> "c" [] OTHER -> "z"

Val(m) == CASE m = "a1" -> "1" [] m = "b2" -> "2" [] m = "c3" -> "3" [] OTHER -> "0"

\* json.loads accepts: white space anywhere between tokens, then an object
\*   { member , member ... }
JsonTokens(t) == SelectSeq(t, LAMBDA tok : tok \notin Whitespace)

JsonValid(t) ==
    LET u == JsonTokens(t)
        n == Len(u)
    IN  /\ n >= 2
        /\ u[1] = "{"
        /\ u[n] = "}"
        /\ \/ n = 2
           \/ /\ n % 2 = 1
              /\ \A k \in 2..(n - 1) :
                    IF k % 2 = 0 THEN u[k] \in Members ELSE u[k] = ","

\* the dict json.loads builds: of a repeated key the last member stays
JsonValue(t) ==
    LET u == JsonTokens(t)
        ms == {k \in 2..(Len(u) - 1) : u[k] \in Members}
        last == {k \in ms : \A l \in ms : l > k => Key(u[l]) # Key(u[k])}
    IN  {<<Key(u[k]), Val(u[k])>> : k \in last}

---------------------------------------------------------------------------
(* _process_content, lines 203-239 *)

\* the two patterns tried in the other order
_process_content_next_first(text) ==
    LET m2 == SearchNextData(text)
    IN  IF ~m2.found
        THEN LET m1 == SearchInitialState(text)
             IN  IF ~m1.found
                 THEN Raise("ApiException", <<MsgNotFound>>)
                 ELSE IF JsonValid(m1.group1)
                 THEN Return(JsonValue(m1.group1), INITIAL_STATE)
                 ELSE Raise("ApiException", <<MsgUnparsable>>)
        ELSE IF JsonValid(m2.group1)
        THEN Return(JsonValue(m2.group1), NEXT_DATA)
        ELSE Raise("ApiException", <<MsgUnparsable>>)

\* a parse failure answered with an empty dict
ParseMatchLenient(m, t) ==
    IF JsonValid(m.group1)
    THEN Return(JsonValue(m.group1), t)
    ELSE Return({}, t)

\* lines 233-239: json.loads of the group captured
ParseMatch(m, t) ==
    IF JsonValid(m.group1)
    THEN Return(JsonValue(m.group1), t)
    ELSE Raise("ApiException", <<MsgUnparsable>>)

\* an unparsable first match answered by a try of the second pattern
_process_content_fallback(text) ==
    LET m1 == SearchInitialState(text)
        m2 == SearchNextData(text)
    IN  IF m1.found /\ (JsonValid(m1.group1) \/ ~m2.found)
        THEN ParseMatch(m1, INITIAL_STATE)
        ELSE IF m2.found
        THEN ParseMatch(m2, NEXT_DATA)
        ELSE Raise("ApiException", <<MsgNotFound>>)

_process_content(text) ==
    LET m1 == SearchInitialState(text)
    IN  IF ~m1.found
        THEN LET m2 == SearchNextData(text)
             IN  IF ~m2.found
                 THEN Raise("ApiException", <<MsgNotFound>>)
                 ELSE ParseMatch(m2, NEXT_DATA)
        ELSE ParseMatch(m1, INITIAL_STATE)

\* a call of the re or json library, and the pattern it concerns
Call(fn, t) == [fn |-> fn, pattern |-> t]

\* json.loads called whether or not a pattern matched
_process_content_calls_parse_always(text) ==
    LET m1 == SearchInitialState(text)
    IN  IF ~m1.found
        THEN <<Call("re.search", INITIAL_STATE), Call("re.search", NEXT_DATA),
               Call("json.loads", NEXT_DATA)>>
        ELSE <<Call("re.search", INITIAL_STATE), Call("json.loads", INITIAL_STATE)>>

\* the library calls _process_content makes, in order: re.search at line 217,
\* re.search at line 222 when the first found nothing, json.loads at line 235
\* when one of them matched
_process_content_calls(text) ==
    LET m1 == SearchInitialState(text)
    IN  IF ~m1.found
        THEN LET m2 == SearchNextData(text)
             IN  IF ~m2.found
                 THEN <<Call("re.search", INITIAL_STATE), Call("re.search", NEXT_DATA)>>
                 ELSE <<Call("re.search", INITIAL_STATE), Call("re.search", NEXT_DATA),
                        Call("json.loads", NEXT_DATA)>>
        ELSE <<Call("re.search", INITIAL_STATE), Call("json.loads", INITIAL_STATE)>>

---------------------------------------------------------------------------
(* Page texts *)

SegInitialA == <<"W", "{", "a1", "}", ";">>    \* window.__INITIAL_STATE__={"a":1};
SegInitialZ == <<"W", "{", "z0", "}", ";">>    \* window.__INITIAL_STATE__={"z":0};
SegInitialBad == <<"W", "{", "bad", "}", ";">> \* window.__INITIAL_STATE__={invalid};
SegInitialOpen == <<"W", "{", "z0">>           \* window.__INITIAL_STATE__={"z":0
SegNextB == <<"N", "{", "b2", "}", "E">>       \* the script block with body {"b":2}
SegNextC == <<"N", "SP", "{", "c3", ",", "c3", "}", "E">>
SegNextBad == <<"N", "bad", "E">>
SegNextOpen == <<"N", "{", "c3", "}">>         \* a script block never closed

Segments ==
    {SegInitialA, SegInitialZ, SegInitialBad, SegInitialOpen,
     SegNextB, SegNextC, SegNextBad, SegNextOpen,
     <<"}", ";">>, <<"SP">>, <<"NL">>, <<"x">>}

Pages == {Flatten(ss) : ss \in UNION {[1..n -> Segments] : n \in 0..MaxSegs}}

\* the pages the network serves in the fetch model
FetchPages == {<<>>, SegInitialA, SegNextB, SegInitialBad}

---------------------------------------------------------------------------
(* os.environ.get("USE_PROXY", "").lower() == "true", lines 264 and 305 *)

Unset == [set |-> FALSE, value |-> <<>>]

SetTo(v) == [set |-> TRUE, value |-> v]

EnvValues ==
    {Unset, SetTo(<<>>),
     SetTo(<<"t", "r", "u", "e">>), SetTo(<<"T", "r", "u", "e">>),
     SetTo(<<"T", "R", "U", "E">>),
     SetTo(<<"f", "a", "l", "s", "e">>), SetTo(<<"0">>), SetTo(<<"1">>),
     SetTo(<<"y", "e", "s">>), SetTo(<<"o", "n">>)}

\* os.environ.get(name, default)
EnvironGet(e, default) == IF e.set THEN e.value ELSE default

LowerChar(ch) ==
    CASE ch = "T" -> "t" [] ch = "R" -> "r" [] ch = "U" -> "u" [] ch = "E" -> "e"
      [] OTHER -> ch

\* str.lower()
Lower(s) == [k \in DOMAIN s |-> LowerChar(s[k])]

\* any non-empty value of USE_PROXY taken for "on"
UseProxyNonEmpty(e) == EnvironGet(e, <<>>) # <<>>

\* the usual spellings of "on" taken for "on"
UseProxyTruthy(e) ==
    Lower(EnvironGet(e, <<>>)) \in
        {<<"t", "r", "u", "e">>, <<"1">>, <<"y", "e", "s">>, <<"o", "n">>}

UseProxy(e) == Lower(EnvironGet(e, <<>>)) = <<"t", "r", "u", "e">>

---------------------------------------------------------------------------
(* Responses *)

NoResponse == [status |-> 0, text |-> <<>>, via |-> <<>>, attempt |-> 0]

\* a response; `via` and `attempt` tell which request it answers
Response(st, txt, proxy, n) == [status |-> st, text |-> txt, via |-> proxy, attempt |-> n]

\* what fetch_with_proxy, or the direct request, gives get_initial_state
NoFetch == [kind |-> "none", exc |-> "", msg |-> <<>>, response |-> NoResponse]

Fetched(r) == [kind |-> "return", exc |-> "", msg |-> <<>>, response |-> r]

FetchRaise(e, m) == [kind |-> "raise", exc |-> e, msg |-> m, response |-> NoResponse]

\* a request or a sleep of a call
Event(o, proxy) == [op |-> o, via |-> proxy]

---------------------------------------------------------------------------
(* get_free_proxies, lines 30-59, and get_free_proxies_sync, lines 117-143 *)

\* str.split(sep), sep one token
RECURSIVE Split(_, _)
Split(s, sep) ==
    IF sep \notin Range(s) THEN <<s>>
    ELSE LET k == Min({i \in 1..Len(s) : s[i] = sep})
         IN  <<SubSeq(s, 1, k - 1)>> \o Split(SubSeq(s, k + 1, Len(s)), sep)

\* f"http://{proxy}"
Endpoint(line) == <<"http://">> \o line

\* the answer of the listing service: a transport error, or a response
NoListing == [kind |-> "none", status |-> 0, body |-> <<>>]

ListingError == [kind |-> "error", status |-> 0, body |-> <<>>]

ListingResponse(st, b) == [kind |-> "response", status |-> st, body |-> b]

\* the status test of line 52 left out
get_free_proxies_any_status(resp) ==
    IF resp.kind = "error" THEN <<>>
    ELSE LET lines == SelectSeq(Split(Strip(resp.body), "CRLF"),
                                LAMBDA l : l # <<>>)
         IN  [k \in DOMAIN lines |-> Endpoint(lines[k])]

get_free_proxies(resp) ==
    IF resp.kind = "error" THEN <<>>
    ELSE IF resp.status = 200
         THEN LET lines == SelectSeq(Split(Strip(resp.body), "CRLF"),
                                     LAMBDA l : l # <<>>)
              IN  [k \in DOMAIN lines |-> Endpoint(lines[k])]
         ELSE <<>>

get_free_proxies_sync(resp) ==
    IF resp.kind = "error" THEN <<>>
    ELSE IF resp.status = 200
         THEN LET lines == SelectSeq(Split(Strip(resp.body), "CRLF"),
                                     LAMBDA l : l # <<>>)
              IN  [k \in DOMAIN lines |-> Endpoint(lines[k])]
         ELSE <<>>

\* what a caller of the proxy source got: nothing yet, or the list returned
NoSourceResult == [kind |-> "none", variant |-> "none", value |-> <<>>]

SourceReturn(v, l) == [kind |-> "return", variant |-> v, value |-> l]

\* the listing bodies of the fetch model: host:port lines, each ended by "\r\n"
Hosts == {"h1", "h2"}

RECURSIVE CrLfLines(_)
CrLfLines(hs) == IF hs = <<>> THEN <<>> ELSE <<Head(hs), "CRLF">> \o CrLfLines(Tail(hs))

ListingBodies == {CrLfLines(hs) : hs \in UNION {[1..n -> Hosts] : n \in 0..MaxProxies}}

ListingResponses ==
    {ListingError, ListingResponse(403, <<"h1", "CRLF">>)}
        \cup {ListingResponse(200, b) : b \in ListingBodies}

\* what a proxy attempt meets: status 200, another status, a transport error
AttemptOutcomes == {"ok", "refused", "error"}

Statuses == {200, 403}

---------------------------------------------------------------------------
(* get_initial_state, lines 242-280, and get_initial_state_sync, 283-320 *)

\* no try/except around the body: what was raised goes on as it is
FinishUnwrapped(f) ==
    IF f.kind = "raise"
    THEN Raise(f.exc, f.msg)
    ELSE _process_content(f.response.text)

\* response.raise_for_status() before the text is used
FinishStatusChecked(f) ==
    IF f.kind = "raise"
    THEN Raise("ApiException", <<MsgRequestFailed>> \o f.msg)
    ELSE IF f.response.status # 200
    THEN Raise("ApiException", <<MsgRequestFailed, "status">>)
    ELSE LET r == _process_content(f.response.text)
         IN  IF r.kind = "raise"
             THEN Raise("ApiException", <<MsgRequestFailed>> \o r.msg)
             ELSE r

\* lines 277-280: the text of the response goes to _process_content; whatever
\* was raised inside the try block is raised again as an ApiException
Finish(f) ==
    IF f.kind = "raise"
    THEN Raise("ApiException", <<MsgRequestFailed>> \o f.msg)
    ELSE LET r == _process_content(f.response.text)
         IN  IF r.kind = "raise"
             THEN Raise("ApiException", <<MsgRequestFailed>> \o r.msg)
             ELSE r

\* lines 317-320
FinishSync(f) ==
    IF f.kind = "raise"
    THEN Raise("ApiException", <<MsgRequestFailed>> \o f.msg)
    ELSE LET r == _process_content(f.response.text)
         IN  IF r.kind = "raise"
             THEN Raise("ApiException", <<MsgRequestFailed>> \o r.msg)
             ELSE r

\* the calls the application makes
Startable(c) == c \in allowed

\* lines 256-275: the call starts, reads USE_PROXY and sends its first request:
\* the listing request of get_free_proxies (line 51) or the direct one (line 270)
get_initial_state(c) ==
    /\ pc[c] = "idle"
    /\ Startable(c)
    /\ LET e == environ
       IN /\ env' = [env EXCEPT ![c] = e]
          /\ IF UseProxy(e)
             THEN /\ pc' = [pc EXCEPT ![c] = "listing"]
                  /\ events' = [events EXCEPT ![c] = <<Event("listing", <<>>)>>]
             ELSE /\ pc' = [pc EXCEPT ![c] = "direct"]
                  /\ events' = [events EXCEPT ![c] = <<Event("direct", <<>>)>>]
    /\ variant' = [variant EXCEPT ![c] = "async"]
    /\ inflight' = [inflight EXCEPT ![c] = @ + 1]
    /\ UNCHANGED <<proxies, script, idx, fetch, outcome, listing, slept, cancelled>>
    /\ UNCHANGED <<setupVars, extractVars, sourceVars>>

\* lines 297-315
get_initial_state_sync(c) ==
    /\ pc[c] = "idle"
    /\ Startable(c)
    /\ LET e == environ
       IN /\ env' = [env EXCEPT ![c] = e]
          /\ IF UseProxy(e)
             THEN /\ pc' = [pc EXCEPT ![c] = "listing"]
                  /\ events' = [events EXCEPT ![c] = <<Event("listing", <<>>)>>]
             ELSE /\ pc' = [pc EXCEPT ![c] = "direct"]
                  /\ events' = [events EXCEPT ![c] = <<Event("direct", <<>>)>>]
    /\ variant' = [variant EXCEPT ![c] = "sync"]
    /\ inflight' = [inflight EXCEPT ![c] = @ + 1]
    /\ UNCHANGED <<proxies, script, idx, fetch, outcome, listing, slept, cancelled>>
    /\ UNCHANGED <<setupVars, extractVars, sourceVars>>

\* lines 270-280: the direct request ends, with a transport error or with a
\* response of any status
DirectDone(c) ==
    /\ pc[c] = "direct"
    /\ variant[c] = "async"
    /\ \E f \in {FetchRaise("TransportError", <<"transport error">>)}
                   \cup {Fetched(Response(st, txt, <<>>, 0)) :
                            st \in Statuses, txt \in FetchPages} :
          /\ fetch' = [fetch EXCEPT ![c] = f]
          /\ outcome' = [outcome EXCEPT ![c] = Finish(f)]
    /\ pc' = [pc EXCEPT ![c] = "done"]
    /\ inflight' = [inflight EXCEPT ![c] = @ - 1]
    /\ UNCHANGED <<variant, env, proxies, script, idx, events, listing, slept, cancelled>>
    /\ UNCHANGED <<setupVars, extractVars, sourceVars>>

\* lines 310-320
DirectDoneSync(c) ==
    /\ pc[c] = "direct"
    /\ variant[c] = "sync"
    /\ \E f \in {FetchRaise("TransportError", <<"transport error">>)}
                   \cup {Fetched(Response(st, txt, <<>>, 0)) :
                            st \in Statuses, txt \in FetchPages} :
          /\ fetch' = [fetch EXCEPT ![c] = f]
          /\ outcome' = [outcome EXCEPT ![c] = FinishSync(f)]
    /\ pc' = [pc EXCEPT ![c] = "done"]
    /\ inflight' = [inflight EXCEPT ![c] = @ - 1]
    /\ UNCHANGED <<variant, env, proxies, script, idx, events, listing, slept, cancelled>>
    /\ UNCHANGED <<setupVars, extractVars, sourceVars>>

---------------------------------------------------------------------------
(* fetch_with_proxy, lines 62-114, and fetch_with_proxy_sync, lines 146-200 *)

\* what the i-th attempt of call c can get from the network
AttemptAnswers(c) ==
    LET i == idx[c]
        proxy == proxies[c][i]
    IN  CASE script[c][i] = "ok" ->
               {Fetched(Response(200, txt, proxy, i)) : txt \in FetchPages}
          [] script[c][i] = "refused" ->
               {Fetched(Response(403, <<>>, proxy, i))}
          [] OTHER ->
               {FetchRaise("TransportError", <<"transport error">>)}

\* a response of any status taken for a success
StatusAny(a) == a.kind = "return"

\* line 104: if response.status_code == 200
StatusOk(a) == a.kind = "return" /\ a.response.status = 200

\* line 188
StatusOkSync(a) == a.kind = "return" /\ a.response.status = 200

\* a loop that leaves out the last proxy
MoreProxiesButLast(c) == idx[c] + 1 < Len(proxies[c])

\* line 87: the for loop has another proxy to go to
MoreProxies(c) == idx[c] < Len(proxies[c])

\* line 171
MoreProxiesSync(c) == idx[c] < Len(proxies[c])

\* line 193, line 197: time.sleep(1)
SleepSeconds == 1

\* an empty proxy list answered by a direct request
fetch_with_proxy_start_direct(c) ==
    /\ pc[c] = "listing"
    /\ variant[c] = "async"
    /\ \E resp \in ListingResponses :
          LET ps == get_free_proxies(resp)
          IN  /\ listing' = [listing EXCEPT ![c] = resp]
              /\ IF ps = <<>>
                 THEN /\ events' = [events EXCEPT ![c] = @ \o <<Event("direct", <<>>)>>]
                      /\ pc' = [pc EXCEPT ![c] = "direct"]
                      /\ UNCHANGED <<proxies, script, idx, fetch, outcome, inflight>>
                 ELSE /\ \E sc \in [1..Len(ps) -> AttemptOutcomes] :
                            script' = [script EXCEPT ![c] = sc]
                      /\ proxies' = [proxies EXCEPT ![c] = ps]
                      /\ idx' = [idx EXCEPT ![c] = 1]
                      /\ events' = [events EXCEPT ![c] = @ \o <<Event("proxy", ps[1])>>]
                      /\ pc' = [pc EXCEPT ![c] = "attempt"]
                      /\ UNCHANGED <<fetch, outcome, inflight>>
    /\ UNCHANGED <<variant, env, slept, cancelled, setupVars, extractVars, sourceVars>>

\* a proxy list kept across calls: the list another call fetched is used again
fetch_with_proxy_start_cached(c) ==
    /\ pc[c] = "listing"
    /\ variant[c] = "async"
    /\ \E resp \in ListingResponses :
          LET known == {d \in CallIds : proxies[d] # <<>>}
              ps == IF known = {} THEN get_free_proxies(resp)
                    ELSE proxies[CHOOSE d \in known : TRUE]
              none == FetchRaise("Exception", <<MsgNoProxies>>)
          IN  /\ listing' = [listing EXCEPT ![c] = resp]
              /\ IF ps = <<>>
                 THEN /\ fetch' = [fetch EXCEPT ![c] = none]
                      /\ outcome' = [outcome EXCEPT ![c] = Finish(none)]
                      /\ pc' = [pc EXCEPT ![c] = "done"]
                      /\ inflight' = [inflight EXCEPT ![c] = @ - 1]
                      /\ UNCHANGED <<proxies, script, idx, events>>
                 ELSE /\ \E sc \in [1..Len(ps) -> AttemptOutcomes] :
                            script' = [script EXCEPT ![c] = sc]
                      /\ proxies' = [proxies EXCEPT ![c] = ps]
                      /\ idx' = [idx EXCEPT ![c] = 1]
                      /\ events' = [events EXCEPT ![c] = @ \o <<Event("proxy", ps[1])>>]
                      /\ pc' = [pc EXCEPT ![c] = "attempt"]
                      /\ UNCHANGED <<fetch, outcome, inflight>>
    /\ UNCHANGED <<variant, env, slept, cancelled, setupVars, extractVars, sourceVars>>

\* lines 81-97: the listing request ends; an empty list raises, otherwise the
\* loop starts and the first proxy is tried
fetch_with_proxy_start(c) ==
    /\ pc[c] = "listing"
    /\ variant[c] = "async"
    /\ \E resp \in ListingResponses :
          LET ps == get_free_proxies(resp)
              none == FetchRaise("Exception", <<MsgNoProxies>>)
          IN  /\ listing' = [listing EXCEPT ![c] = resp]
              /\ IF ps = <<>>
                 THEN /\ fetch' = [fetch EXCEPT ![c] = none]
                      /\ outcome' = [outcome EXCEPT ![c] = Finish(none)]
                      /\ pc' = [pc EXCEPT ![c] = "done"]
                      /\ inflight' = [inflight EXCEPT ![c] = @ - 1]
                      /\ UNCHANGED <<proxies, script, idx, events>>
                 ELSE /\ \E sc \in [1..Len(ps) -> AttemptOutcomes] :
                            script' = [script EXCEPT ![c] = sc]
                      /\ proxies' = [proxies EXCEPT ![c] = ps]
                      /\ idx' = [idx EXCEPT ![c] = 1]
                      /\ events' = [events EXCEPT ![c] = @ \o <<Event("proxy", ps[1])>>]
                      /\ pc' = [pc EXCEPT ![c] = "attempt"]
                      /\ UNCHANGED <<fetch, outcome, inflight>>
    /\ UNCHANGED <<variant, env, slept, cancelled, setupVars, extractVars, sourceVars>>

\* lines 165-181
fetch_with_proxy_sync_start(c) ==
    /\ pc[c] = "listing"
    /\ variant[c] = "sync"
    /\ \E resp \in ListingResponses :
          LET ps == get_free_proxies_sync(resp)
              none == FetchRaise("Exception", <<MsgNoProxies>>)
          IN  /\ listing' = [listing EXCEPT ![c] = resp]
              /\ IF ps = <<>>
                 THEN /\ fetch' = [fetch EXCEPT ![c] = none]
                      /\ outcome' = [outcome EXCEPT ![c] = FinishSync(none)]
                      /\ pc' = [pc EXCEPT ![c] = "done"]
                      /\ inflight' = [inflight EXCEPT ![c] = @ - 1]
                      /\ UNCHANGED <<proxies, script, idx, events>>
                 ELSE /\ \E sc \in [1..Len(ps) -> AttemptOutcomes] :
                            script' = [script EXCEPT ![c] = sc]
                      /\ proxies' = [proxies EXCEPT ![c] = ps]
                      /\ idx' = [idx EXCEPT ![c] = 1]
                      /\ events' = [events EXCEPT ![c] = @ \o <<Event("proxy", ps[1])>>]
                      /\ pc' = [pc EXCEPT ![c] = "attempt"]
                      /\ UNCHANGED <<fetch, outcome, inflight>>
    /\ UNCHANGED <<variant, env, slept, cancelled, setupVars, extractVars, sourceVars>>

\* lines 87-114: the request through proxies[i] ends.  Status 200 returns the
\* response (and get_initial_state goes on, lines 277-280); another status or
\* an exception goes to the next proxy; after the last one the loop is left
\* and line 114 raises
fetch_with_proxy(c) ==
    /\ pc[c] = "attempt"
    /\ variant[c] = "async"
    /\ \E a \in AttemptAnswers(c) :
          LET i == idx[c]
              failed == FetchRaise("Exception", <<MsgAllFailed>>)
          IN  IF StatusOk(a)
              THEN /\ fetch' = [fetch EXCEPT ![c] = a]
                   /\ outcome' = [outcome EXCEPT ![c] = Finish(a)]
                   /\ pc' = [pc EXCEPT ![c] = "done"]
                   /\ inflight' = [inflight EXCEPT ![c] = @ - 1]
                   /\ UNCHANGED <<idx, events>>
              ELSE IF MoreProxies(c)
              THEN /\ idx' = [idx EXCEPT ![c] = i + 1]
                   /\ events' = [events EXCEPT
                                   ![c] = @ \o <<Event("proxy", proxies[c][i + 1])>>]
                   /\ UNCHANGED <<pc, fetch, outcome, inflight>>
              ELSE /\ fetch' = [fetch EXCEPT ![c] = failed]
                   /\ outcome' = [outcome EXCEPT ![c] = Finish(failed)]
                   /\ pc' = [pc EXCEPT ![c] = "done"]
                   /\ inflight' = [inflight EXCEPT ![c] = @ - 1]
                   /\ UNCHANGED <<idx, events>>
    /\ UNCHANGED <<variant, env, proxies, script, listing, slept, cancelled>>
    /\ UNCHANGED <<setupVars, extractVars, sourceVars>>

\* the blocking loop without its waits
fetch_with_proxy_sync_no_wait(c) ==
    /\ pc[c] = "attempt"
    /\ variant[c] = "sync"
    /\ \E a \in AttemptAnswers(c) :
          LET i == idx[c]
              failed == FetchRaise("Exception", <<MsgAllFailed>>)
          IN  IF StatusOkSync(a)
              THEN /\ fetch' = [fetch EXCEPT ![c] = a]
                   /\ outcome' = [outcome EXCEPT ![c] = FinishSync(a)]
                   /\ pc' = [pc EXCEPT ![c] = "done"]
                   /\ inflight' = [inflight EXCEPT ![c] = @ - 1]
                   /\ UNCHANGED <<idx, events>>
              ELSE IF MoreProxiesSync(c)
              THEN /\ idx' = [idx EXCEPT ![c] = i + 1]
                   /\ events' = [events EXCEPT
                                   ![c] = @ \o <<Event("proxy", proxies[c][i + 1])>>]
                   /\ UNCHANGED <<pc, fetch, outcome, inflight>>
              ELSE /\ fetch' = [fetch EXCEPT ![c] = failed]
                   /\ outcome' = [outcome EXCEPT ![c] = FinishSync(failed)]
                   /\ pc' = [pc EXCEPT ![c] = "done"]
                   /\ inflight' = [inflight EXCEPT ![c] = @ - 1]
                   /\ UNCHANGED <<idx, events>>
    /\ UNCHANGED <<variant, env, proxies, script, listing, slept, cancelled>>
    /\ UNCHANGED <<setupVars, extractVars, sourceVars>>

\* lines 171-200: as above, with time.sleep(1) after a failed attempt
\* (line 193 after another status, line 197 after an exception)
fetch_with_proxy_sync(c) ==
    /\ pc[c] = "attempt"
    /\ variant[c] = "sync"
    /\ \E a \in AttemptAnswers(c) :
          LET i == idx[c]
              failed == FetchRaise("Exception", <<MsgAllFailed>>)
          IN  IF StatusOkSync(a)
              THEN /\ fetch' = [fetch EXCEPT ![c] = a]
                   /\ outcome' = [outcome EXCEPT ![c] = FinishSync(a)]
                   /\ pc' = [pc EXCEPT ![c] = "done"]
                   /\ inflight' = [inflight EXCEPT ![c] = @ - 1]
                   /\ UNCHANGED <<idx, events, slept>>
              ELSE IF MoreProxiesSync(c)
              THEN /\ idx' = [idx EXCEPT ![c] = i + 1]
                   /\ events' = [events EXCEPT
                                   ![c] = @ \o <<Event("sleep", <<>>),
                                                 Event("proxy", proxies[c][i + 1])>>]
                   /\ slept' = [slept EXCEPT ![c] = @ + SleepSeconds]
                   /\ UNCHANGED <<pc, fetch, outcome, inflight>>
              ELSE /\ fetch' = [fetch EXCEPT ![c] = failed]
                   /\ outcome' = [outcome EXCEPT ![c] = FinishSync(failed)]
                   /\ events' = [events EXCEPT ![c] = @ \o <<Event("sleep", <<>>)>>]
                   /\ slept' = [slept EXCEPT ![c] = @ + SleepSeconds]
                   /\ pc' = [pc EXCEPT ![c] = "done"]
                   /\ inflight' = [inflight EXCEPT ![c] = @ - 1]
                   /\ UNCHANGED idx
    /\ UNCHANGED <<variant, env, proxies, script, listing, cancelled>>
    /\ UNCHANGED <<setupVars, extractVars, sourceVars>>

\* a cancellation during a proxy attempt taken for the failure of the
\* candidate: the loop goes on to the next one
CancelAbsorbed(c) ==
    /\ pc[c] \in {"listing", "attempt", "direct"}
    /\ variant[c] = "async"
    /\ cancelled' = cancelled \cup {c}
    /\ IF pc[c] = "attempt" /\ MoreProxies(c)
       THEN /\ idx' = [idx EXCEPT ![c] = @ + 1]
            /\ events' = [events EXCEPT
                            ![c] = @ \o <<Event("proxy", proxies[c][idx[c] + 1])>>]
            /\ UNCHANGED <<pc, fetch, outcome, inflight>>
       ELSE /\ pc' = [pc EXCEPT ![c] = "cancelled"]
            /\ fetch' = [fetch EXCEPT
                           ![c] = IF pc[c] = "direct" THEN @
                                  ELSE FetchRaise("CancelledError", <<>>)]
            /\ outcome' = [outcome EXCEPT ![c] = Raise("CancelledError", <<>>)]
            /\ inflight' = [inflight EXCEPT ![c] = @ - 1]
            /\ UNCHANGED <<idx, events>>
    /\ UNCHANGED <<variant, env, proxies, script, listing, slept>>
    /\ UNCHANGED <<setupVars, extractVars, sourceVars>>

\* the task running get_initial_state is cancelled while it awaits a request
\* (lines 51, 97, 270): CancelledError is no Exception, so neither line 110
\* nor line 279 catches it
Cancel(c) ==
    /\ pc[c] \in {"listing", "attempt", "direct"}
    /\ variant[c] = "async"
    /\ pc' = [pc EXCEPT ![c] = "cancelled"]
    /\ cancelled' = cancelled \cup {c}
    /\ fetch' = [fetch EXCEPT
                   ![c] = IF pc[c] = "direct" THEN @
                          ELSE FetchRaise("CancelledError", <<>>)]
    /\ outcome' = [outcome EXCEPT ![c] = Raise("CancelledError", <<>>)]
    /\ inflight' = [inflight EXCEPT ![c] = @ - 1]
    /\ UNCHANGED <<variant, env, proxies, script, idx, events, listing, slept>>
    /\ UNCHANGED <<setupVars, extractVars, sourceVars>>

---------------------------------------------------------------------------
(* The module at work: invocations of get_initial_state(_sync) *)

InitCalls ==
    /\ pc = [c \in CallIds |-> "idle"]
    /\ variant = [c \in CallIds |-> "async"]
    /\ env = [c \in CallIds |-> Unset]
    /\ proxies = [c \in CallIds |-> <<>>]
    /\ script = [c \in CallIds |-> <<>>]
    /\ idx = [c \in CallIds |-> 0]
    /\ events = [c \in CallIds |-> <<>>]
    /\ fetch = [c \in CallIds |-> NoFetch]
    /\ outcome = [c \in CallIds |-> NoResult]
    /\ listing = [c \in CallIds |-> NoListing]
    /\ slept = [c \in CallIds |-> 0]
    /\ cancelled = {}
    /\ inflight = [c \in CallIds |-> 0]

\* the content extractor and the proxy source at rest
InitExtractIdle ==
    /\ content = <<>>
    /\ extracted = NoResult
    /\ steps = <<>>

InitSourceIdle ==
    /\ sourceResp = NoListing
    /\ sourceResult = NoSourceResult

\* one invocation, of either variant, under any value of USE_PROXY
Init ==
    /\ InitCalls
    /\ allowed = {1}
    /\ environ \in EnvValues
    /\ InitExtractIdle
    /\ InitSourceIdle

Next ==
    \E c \in CallIds :
        \/ get_initial_state(c)
        \/ get_initial_state_sync(c)
        \/ fetch_with_proxy_start(c)
        \/ fetch_with_proxy_sync_start(c)
        \/ fetch_with_proxy(c)
        \/ fetch_with_proxy_sync(c)
        \/ DirectDone(c)
        \/ DirectDoneSync(c)
        \/ Cancel(c)

Spec == Init /\ [][Next]_vars

---------------------------------------------------------------------------
(* The content extractor on every page text *)

InitExtract ==
    /\ InitCalls
    /\ allowed = {}
    /\ environ = Unset
    /\ InitSourceIdle
    /\ content \in Pages
    /\ extracted = NoResult
    /\ steps = <<>>

ProcessContent ==
    /\ extracted = NoResult
    /\ extracted' = _process_content(content)
    /\ steps' = _process_content_calls(content)
    /\ UNCHANGED <<content, callVars, setupVars, sourceVars>>

NextExtract == ProcessContent

SpecExtract == InitExtract /\ [][NextExtract]_vars

---------------------------------------------------------------------------
(* What the claims speak of *)

\* the proxies call c sent a request through, in order
Attempted(c) ==
    LET reqs == SelectSeq(events[c], LAMBDA ev : ev.op = "proxy")
    IN  [k \in DOMAIN reqs |-> reqs[k].via]

\* fetch_with_proxy has returned or raised
FetcherEnded(c) == pc[c] = "done" /\ events[c][1].op = "listing"

OnlyLastOk(sc) ==
    /\ sc # <<>>
    /\ sc[Len(sc)] = "ok"
    /\ \A k \in 1..(Len(sc) - 1) : sc[k] # "ok"

AllFail(sc) == sc # <<>> /\ \A k \in DOMAIN sc : sc[k] # "ok"

\* the positions of the candidates that answer with status 200
OkAt(sc) == {k \in DOMAIN sc : sc[k] = "ok"}

\* C1: given a proxy list of N endpoints of which only the last returns
\* status 200, the fetcher (either variant) makes exactly N attempts, one
\* proxy per attempt in the order of the list, and returns the response of
\* the N-th attempt; while it runs, the attempts made are the first idx
\* proxies of the list.
C1_OnlyLastOk ==
    \A c \in CallIds :
        /\ pc[c] = "attempt" => Attempted(c) = SubSeq(proxies[c], 1, idx[c])
        /\ (FetcherEnded(c) /\ OnlyLastOk(script[c])) =>
              /\ Attempted(c) = proxies[c]
              /\ fetch[c].kind = "return"
              /\ fetch[c].response.status = 200
              /\ fetch[c].response.attempt = Len(proxies[c])
              /\ fetch[c].response.via = proxies[c][Len(proxies[c])]

C1_Witness ==
    \E c \in CallIds :
        /\ FetcherEnded(c)
        /\ Len(proxies[c]) >= 3
        /\ OnlyLastOk(script[c])
        /\ script[c][1] = "refused"
        /\ script[c][2] = "error"
        /\ fetch[c].response.attempt = Len(proxies[c])

\* C2: the first candidate that returns status 200 ends the call with its
\* response and no later candidate is attempted; a candidate that returns
\* another status or raises a transport error does not end the call; the
\* fetcher fails only after every candidate has been attempted.
C2_FirstOkWins ==
    \A c \in CallIds :
        FetcherEnded(c) /\ proxies[c] # <<>> =>
            IF OkAt(script[c]) # {}
            THEN /\ fetch[c].kind = "return"
                 /\ fetch[c].response.status = 200
                 /\ fetch[c].response.attempt = Min(OkAt(script[c]))
                 /\ Attempted(c) = SubSeq(proxies[c], 1, Min(OkAt(script[c])))
            ELSE /\ fetch[c].kind = "raise"
                 /\ Attempted(c) = proxies[c]

C2_Witness ==
    \E c \in CallIds :
        /\ FetcherEnded(c)
        /\ Len(proxies[c]) >= 3
        /\ script[c][1] = "error"
        /\ script[c][2] = "ok"
        /\ fetch[c].kind = "return"
        /\ Len(Attempted(c)) = 2

\* C3 as stated: when every one of the N candidates fails, the call fails
\* with the all-proxies-exhausted condition and that condition names N.
C3_NamesCount ==
    \A c \in CallIds :
        (FetcherEnded(c) /\ AllFail(script[c])) =>
            /\ fetch[c].kind = "raise"
            /\ MsgAllFailed \in Range(fetch[c].msg)
            /\ ToString(Len(proxies[c])) \in Range(fetch[c].msg)

\* C3 amended: when every one of the N candidates fails, the call fails,
\* after exactly N attempts, with the all-proxies-exhausted condition: a
\* plain Exception whose message is fixed and names no count.
C3_Exhausted ==
    \A c \in CallIds :
        (FetcherEnded(c) /\ AllFail(script[c])) =>
            /\ fetch[c] = FetchRaise("Exception", <<MsgAllFailed>>)
            /\ Attempted(c) = proxies[c]
            /\ Len(Attempted(c)) = Len(script[c])

C3_Witness ==
    \E c \in CallIds :
        /\ FetcherEnded(c)
        /\ Len(proxies[c]) >= 3
        /\ AllFail(script[c])
        /\ "error" \in Range(script[c])
        /\ "refused" \in Range(script[c])
        /\ fetch[c].kind = "raise"

\* C4: when the Proxy Source returns an empty list the fetcher fails at once
\* with the no-proxies condition: the listing request is the only request of
\* the call, none goes to the target URL, through a proxy or directly.
C4_NoProxies ==
    \A c \in CallIds :
        (FetcherEnded(c) /\ proxies[c] = <<>>) =>
            /\ fetch[c] = FetchRaise("Exception", <<MsgNoProxies>>)
            /\ events[c] = <<Event("listing", <<>>)>>
            /\ outcome[c].kind = "raise"

C4_Witness ==
    \E c \in CallIds :
        /\ FetcherEnded(c)
        /\ proxies[c] = <<>>
        /\ fetch[c].kind = "raise"

\* the values of USE_PROXY that are absent or falsy
AbsentOrFalsy(e) ==
    \/ ~e.set
    \/ e.value \in {<<>>, <<"0">>, <<"f", "a", "l", "s", "e">>}

\* C5: with the use-proxy switch absent or falsy, a call of the orchestrator
\* (either variant) runs in direct mode: it sends the direct request only,
\* never the listing request of the Proxy Source nor a request through a
\* proxy, whatever the direct request ends with.
C5_DirectMode ==
    \A c \in CallIds :
        (pc[c] # "idle" /\ AbsentOrFalsy(env[c])) =>
            /\ events[c] = <<Event("direct", <<>>)>>
            /\ proxies[c] = <<>>
            /\ idx[c] = 0
            /\ pc[c] \in {"direct", "done", "cancelled"}

C5_Witness ==
    \E c \in CallIds :
        /\ pc[c] = "done"
        /\ env[c] = SetTo(<<"f", "a", "l", "s", "e">>)
        /\ fetch[c].exc = "TransportError"
        /\ events[c] = <<Event("direct", <<>>)>>

\* C6: a call of the orchestrator that runs to its end either returns a pair
\* (parsed data, discriminator) or raises an ApiException; an error raised by
\* the fetcher or by the direct transport, and a failure of the extractor, is
\* raised as an ApiException that carries the cause; what is returned is the
\* extractor's result for the text fetched, never an empty or default value.
C6_WrappedFailures ==
    \A c \in CallIds :
        pc[c] = "done" =>
            /\ \/ /\ outcome[c].kind = "return"
                  /\ outcome[c].type \in {INITIAL_STATE, NEXT_DATA}
               \/ /\ outcome[c].kind = "raise"
                  /\ outcome[c].exc = "ApiException"
            /\ fetch[c].kind = "raise" =>
                  outcome[c] = Raise("ApiException", <<MsgRequestFailed>> \o fetch[c].msg)
            /\ fetch[c].kind = "return" =>
                  LET r == _process_content(fetch[c].response.text)
                  IN  IF r.kind = "return"
                      THEN outcome[c] = r
                      ELSE outcome[c] =
                               Raise("ApiException", <<MsgRequestFailed>> \o r.msg)

C6_Witness ==
    \E c \in CallIds :
        /\ pc[c] = "done"
        /\ fetch[c].kind = "raise"
        /\ fetch[c].exc = "Exception"
        /\ outcome[c].exc = "ApiException"

---------------------------------------------------------------------------
(* The content extractor's claims, under SpecExtract *)

Extracted == extracted # NoResult

\* the first pattern matches somewhere in the text
HasInitialState(s) == \E i \in 1..Len(s) : InitialStateEnds(s, i) # {}

\* the second pattern matches somewhere in the text
HasNextData(s) == \E i \in 1..Len(s) : NextDataEnds(s, i) # {}

ValueA == {<<"a", "1">>}
ValueB == {<<"b", "2">>}

Captured(s) ==
    IF HasInitialState(s) THEN SearchInitialState(s).group1
    ELSE SearchNextData(s).group1

\* C8: for a page text in which a pattern matches and the text captured is
\* no JSON, extraction fails as unparsable, not as not found, and returns no
\* value; so for a text whose first match is window.__INITIAL_STATE__={invalid};
C8_Unparsable ==
    /\ (/\ Extracted
        /\ HasInitialState(content) \/ HasNextData(content)
        /\ ~JsonValid(Captured(content))) =>
            /\ extracted = Raise("ApiException", <<MsgUnparsable>>)
            /\ extracted.msg # <<MsgNotFound>>
            /\ extracted.value = {}
    /\ (/\ Extracted
        /\ \E i \in 1..Len(content) :
              /\ OccursAt(content, SegInitialBad, i)
              /\ \A k \in 1..(i - 1) : InitialStateEnds(content, k) = {}) =>
            extracted = Raise("ApiException", <<MsgUnparsable>>)

C8_Witness ==
    /\ Extracted
    /\ Contains(content, SegInitialBad)
    /\ Contains(content, SegNextB)
    /\ extracted = Raise("ApiException", <<MsgUnparsable>>)

\* C9 as stated: for any page text that contains
\* window.__INITIAL_STATE__={"a":1}; whatever precedes or follows it,
\* extraction returns {"a":1} with discriminator INITIAL_STATE.
C9_AnyTextAround ==
    (Extracted /\ Contains(content, SegInitialA)) =>
        extracted = Return(ValueA, INITIAL_STATE)

\* C9 amended: for any page text that contains
\* window.__INITIAL_STATE__={"a":1}; with no match of the first pattern
\* starting before it, extraction returns {"a":1} with discriminator
\* INITIAL_STATE, whatever follows.
C9_LeftmostMatch ==
    (/\ Extracted
     /\ \E i \in 1..Len(content) :
           /\ OccursAt(content, SegInitialA, i)
           /\ \A k \in 1..(i - 1) : InitialStateEnds(content, k) = {}) =>
        extracted = Return(ValueA, INITIAL_STATE)

\* text before and after the assignment, a closing "};" after it
C9_Witness ==
    /\ Extracted
    /\ \E i \in 2..Len(content) :
          /\ OccursAt(content, SegInitialA, i)
          /\ \E j \in (i + 5)..Len(content) : OccursAt(content, <<"}", ";">>, j)
    /\ extracted = Return(ValueA, INITIAL_STATE)

\* a script element of the page starts at i: the tag is there and every
\* element opened before it is closed before it
ScriptElementAt(s, i) ==
    /\ s[i] = "N"
    /\ \A k \in 1..(i - 1) : s[k] = "N" => \E e \in (k + 1)..(i - 1) : s[e] = "E"

Closed(s, i) == \E e \in (i + 1)..Len(s) : s[e] = "E"

\* the text between the tag at i and the next closing tag
BodyAt(s, i) == SubSeq(s, i + 1, Min({e \in (i + 1)..Len(s) : s[e] = "E"}) - 1)

BodyB == <<"{", "b2", "}">>

\* the discriminator names the pattern that matched
NamesPattern ==
    (Extracted /\ extracted.kind = "return") =>
        /\ extracted.type = INITIAL_STATE <=> HasInitialState(content)
        /\ extracted.type = NEXT_DATA <=>
              (~HasInitialState(content) /\ HasNextData(content))

\* C10 as stated: for any page text without the window.__INITIAL_STATE__
\* marker that contains a __NEXT_DATA__ script element with body {"b":2},
\* extraction returns {"b":2} with discriminator NEXT_DATA; and the
\* discriminator names the pattern that matched.
C10_AnyScriptBlock ==
    /\ (/\ Extracted
        /\ "W" \notin Range(content)
        /\ \E i \in 1..Len(content) :
              /\ ScriptElementAt(content, i)
              /\ Closed(content, i)
              /\ Strip(BodyAt(content, i)) = BodyB) =>
            extracted = Return(ValueB, NEXT_DATA)
    /\ NamesPattern

\* C10 amended: for any page text in which the first pattern does not match
\* and whose first __NEXT_DATA__ script element has body {"b":2}, extraction
\* returns {"b":2} with discriminator NEXT_DATA; and the discriminator names
\* the pattern that matched.
C10_FirstScriptBlock ==
    /\ (/\ Extracted
        /\ ~HasInitialState(content)
        /\ \E i \in 1..Len(content) :
              /\ content[i] = "N"
              /\ \A k \in 1..(i - 1) : content[k] # "N"
              /\ Closed(content, i)
              /\ Strip(BodyAt(content, i)) = BodyB) =>
            extracted = Return(ValueB, NEXT_DATA)
    /\ NamesPattern

\* text before the block and another block after it
C10_Witness ==
    /\ Extracted
    /\ "W" \notin Range(content)
    /\ \E i \in 2..Len(content) :
          /\ OccursAt(content, SegNextB, i)
          /\ \A k \in 1..(i - 1) : content[k] # "N"
          /\ \E k \in (i + 5)..Len(content) : content[k] = "N"
    /\ extracted = Return(ValueB, NEXT_DATA)

---------------------------------------------------------------------------
(* The proxy source on every answer of the listing service *)

MaxBody == 4         \* longest listing body, in tokens, the proxy source is given

BodyTokens == Hosts \cup {"CRLF", "NL"}

SourceBodies == UNION {[1..n -> BodyTokens] : n \in 0..MaxBody}

SourceStatuses == {200, 403, 500}

SourceResponses ==
    {ListingError} \cup {ListingResponse(st, b) : st \in SourceStatuses, b \in SourceBodies}

InitSource ==
    /\ InitCalls
    /\ allowed = {}
    /\ environ = Unset
    /\ InitExtractIdle
    /\ sourceResp \in SourceResponses
    /\ sourceResult = NoSourceResult

\* lines 49-59: whatever the request does, the function returns a list
GetFreeProxies ==
    /\ sourceResult = NoSourceResult
    /\ sourceResult' = SourceReturn("async", get_free_proxies(sourceResp))
    /\ UNCHANGED <<sourceResp, callVars, setupVars, extractVars>>

\* lines 134-143
GetFreeProxiesSync ==
    /\ sourceResult = NoSourceResult
    /\ sourceResult' = SourceReturn("sync", get_free_proxies_sync(sourceResp))
    /\ UNCHANGED <<sourceResp, callVars, setupVars, extractVars>>

NextSource == GetFreeProxies \/ GetFreeProxiesSync

SpecSource == InitSource /\ [][NextSource]_vars

---------------------------------------------------------------------------
(* The extractor when nothing matches *)

\* the library functions the extractor called
Called == {steps[k] : k \in DOMAIN steps}

\* C11: for any page text in which neither the window.__INITIAL_STATE__
\* pattern nor the __NEXT_DATA__ script pattern matches, extraction fails with
\* the not-found condition and json.loads is never called.
C11_NotFound ==
    (Extracted /\ ~HasInitialState(content) /\ ~HasNextData(content)) =>
        /\ extracted = Raise("ApiException", <<MsgNotFound>>)
        /\ \A t \in {INITIAL_STATE, NEXT_DATA} : Call("json.loads", t) \notin Called

\* both markers occur in the text, neither pattern matches
C11_Witness ==
    /\ Extracted
    /\ "W" \in Range(content)
    /\ "N" \in Range(content)
    /\ ~HasInitialState(content)
    /\ ~HasNextData(content)
    /\ extracted = Raise("ApiException", <<MsgNotFound>>)
    /\ steps = <<Call("re.search", INITIAL_STATE), Call("re.search", NEXT_DATA)>>

---------------------------------------------------------------------------
(* The proxy source *)

SourceEnded == sourceResult # NoSourceResult

\* C12: for get_free_proxies and get_free_proxies_sync, on a transport failure
\* of the listing request or a response whose status is not 200 the call
\* returns the empty list; it does not raise.
C12_EmptyOnFailure ==
    (SourceEnded /\ (sourceResp.kind = "error" \/ sourceResp.status # 200)) =>
        /\ sourceResult.kind = "return"
        /\ sourceResult.value = <<>>

\* a response of status 500 whose body lists two proxies, to the sync variant
C12_Witness ==
    /\ sourceResp = ListingResponse(500, <<"h1", "CRLF", "h2">>)
    /\ sourceResult = SourceReturn("sync", <<>>)

\* the lines of a text whichever delimiter ends them
RECURSIVE LinesOf(_)
LinesOf(s) ==
    IF \A i \in DOMAIN s : s[i] \notin LineBreaks THEN <<s>>
    ELSE LET k == Min({i \in DOMAIN s : s[i] \in LineBreaks})
         IN  <<SubSeq(s, 1, k - 1)>> \o LinesOf(SubSeq(s, k + 1, Len(s)))

NonEmptyLinesOf(s) == SelectSeq(LinesOf(s), LAMBDA l : l # <<>>)

\* C13: on a 200 response whose body is host:port lines, the result has one
\* endpoint per non-empty line, in the order of the lines, each "http://"
\* followed by the line, duplicates kept, whether the lines end with a bare
\* newline or with carriage return plus newline.
C13_EveryDelimiter ==
    (SourceEnded /\ sourceResp.kind = "response" /\ sourceResp.status = 200) =>
        LET lines == NonEmptyLinesOf(sourceResp.body)
        IN  sourceResult.value = [k \in DOMAIN lines |-> Endpoint(lines[k])]

\* two hosts on two lines ended by bare newlines come back as one endpoint
C13_Witness ==
    /\ sourceResp = ListingResponse(200, <<"h1", "NL", "h2", "NL">>)
    /\ sourceResult.kind = "return"
    /\ sourceResult.value = <<Endpoint(<<"h1", "NL", "h2">>)>>

---------------------------------------------------------------------------
(* The two variants on the same inputs: call 1 is get_initial_state; when it
   has ended, call 2 is get_initial_state_sync and meets what call 1 met *)

InitPair ==
    /\ InitCalls
    /\ allowed = {1, 2}
    /\ environ \in EnvValues
    /\ InitExtractIdle
    /\ InitSourceIdle

\* the same value of USE_PROXY: environ has not changed
PairSyncCall ==
    /\ pc[1] = "done"
    /\ get_initial_state_sync(2)

\* the same answer of the listing service, the same outcome per candidate
PairSyncListing ==
    /\ listing' = [listing EXCEPT ![2] = listing[1]]
    /\ script' = [script EXCEPT ![2] = script[1]]
    /\ fetch_with_proxy_sync_start(2)

\* the same page text where a candidate answers with status 200
PairSyncAttempt ==
    /\ fetch_with_proxy_sync(2)
    /\ (/\ fetch'[2].kind = "return"
        /\ fetch'[2].response.status = 200
        /\ fetch[1].kind = "return") =>
            fetch'[2].response.text = fetch[1].response.text

\* the same outcome of the direct request
PairSyncDirect ==
    /\ DirectDoneSync(2)
    /\ fetch'[2] = fetch[1]

NextPair ==
    \/ get_initial_state(1)
    \/ fetch_with_proxy_start(1)
    \/ fetch_with_proxy(1)
    \/ DirectDone(1)
    \/ PairSyncCall
    \/ PairSyncListing
    \/ PairSyncAttempt
    \/ PairSyncDirect

SpecPair == InitPair /\ [][NextPair]_vars

\* the requests of a call, its waits left out
Requests(c) == SelectSeq(events[c], LAMBDA ev : ev.op # "sleep")

\* C14: for the same use-proxy switch, proxy list, per-candidate outcomes,
\* direct-request outcome and page text, get_initial_state /
\* fetch_with_proxy and get_initial_state_sync / fetch_with_proxy_sync send
\* the same requests to the same candidates in the same order and end in the
\* same outcome: the same value and discriminator or the same failure.
C14_SameSemantics ==
    (pc[1] = "done" /\ pc[2] = "done") =>
        /\ variant[1] = "async" /\ variant[2] = "sync"
        /\ Attempted(2) = Attempted(1)
        /\ Requests(2) = Requests(1)
        /\ fetch[2] = fetch[1]
        /\ outcome[2] = outcome[1]

\* both variants went past a refusing first candidate and returned the state
\* the second one served
C14_Witness ==
    /\ pc[1] = "done" /\ pc[2] = "done"
    /\ variant[1] = "async" /\ variant[2] = "sync"
    /\ Len(script[1]) >= 2
    /\ script[1][1] = "refused"
    /\ Len(Attempted(2)) = 2
    /\ slept[2] > 0
    /\ outcome[1] = Return(ValueA, INITIAL_STATE)
    /\ outcome[2] = Return(ValueA, INITIAL_STATE)

---------------------------------------------------------------------------
(* Waits *)

\* the positions of the waits in the log of a call
SleepsAt(c) == {k \in DOMAIN events[c] : events[c][k].op = "sleep"}

\* the candidate whose attempt the k-th entry of the log belongs to
AttemptOf(c, k) ==
    Cardinality({j \in 1..k : events[c][j].op = "proxy"})

\* C15: in fetch_with_proxy_sync a wait of one time unit follows a failed
\* attempt (another status than 200, or a transport error) and comes before
\* the next candidate is attempted; fetch_with_proxy waits at no point.
C15_WaitBetween ==
    \A c \in CallIds :
        IF variant[c] = "sync"
        THEN /\ \A k \in DOMAIN events[c] :
                   (events[c][k].op = "proxy" /\ AttemptOf(c, k) > 1) =>
                       /\ events[c][k - 1].op = "sleep"
                       /\ events[c][k - 2].op = "proxy"
                       /\ script[c][AttemptOf(c, k - 2)] # "ok"
             /\ \A k \in SleepsAt(c) :
                   /\ events[c][k - 1].op = "proxy"
                   /\ script[c][AttemptOf(c, k)] # "ok"
             /\ slept[c] = 1 * Cardinality(SleepsAt(c))
        ELSE /\ SleepsAt(c) = {}
             /\ slept[c] = 0

\* a blocking call whose first candidate failed has waited one time unit
\* before it got the page from the second
C15_Witness ==
    /\ pc[1] = "done"
    /\ variant[1] = "sync"
    /\ Len(script[1]) >= 2
    /\ script[1][1] = "error"
    /\ script[1][2] = "ok"
    /\ [k \in DOMAIN events[1] |-> events[1][k].op]
           = <<"listing", "proxy", "sleep", "proxy">>
    /\ slept[1] = 1

---------------------------------------------------------------------------
(* Two calls of get_initial_state at once: each step below is what one call
   does between two of its awaits (lines 51, 97, 270), and the event loop
   may run a step of the other call in between *)

\* what the calls meet in this specification
ConcListings ==
    {ListingError,
     ListingResponse(200, <<"h1", "CRLF", "h2", "CRLF">>),
     ListingResponse(200, <<"h2", "CRLF">>)}

ConcPages == {SegInitialA, SegNextB}

InitConc ==
    /\ InitCalls
    /\ allowed = {1, 2}
    /\ environ \in {Unset, SetTo(<<"t", "r", "u", "e">>)}
    /\ InitExtractIdle
    /\ InitSourceIdle

ConcListing(c) ==
    /\ fetch_with_proxy_start(c)
    /\ listing'[c] \in ConcListings

ConcAttempt(c) ==
    /\ fetch_with_proxy(c)
    /\ fetch'[c].kind = "return" => fetch'[c].response.text \in ConcPages

ConcDirect(c) ==
    /\ DirectDone(c)
    /\ fetch'[c].kind = "return" => fetch'[c].response.text \in ConcPages

NextConc ==
    \E c \in CallIds :
        \/ get_initial_state(c)
        \/ ConcListing(c)
        \/ ConcAttempt(c)
        \/ ConcDirect(c)
        \/ Cancel(c)

SpecConc == InitConc /\ [][NextConc]_vars

\* the first candidate that answers with status 200, or 0
FirstOk(sc) == IF OkAt(sc) = {} THEN 0 ELSE Min(OkAt(sc))

\* what a call that runs alone does with the listing answer, the candidate
\* outcomes and the page it meets: the candidates it attempts ...
AloneAttempts(c) ==
    LET ps == get_free_proxies(listing[c])
        n == IF FirstOk(script[c]) = 0 THEN Len(ps) ELSE FirstOk(script[c])
    IN  SubSeq(ps, 1, n)

\* ... and how it ends
AloneEnds(c) ==
    LET ps == get_free_proxies(listing[c])
        k == FirstOk(script[c])
    IN  IF ps = <<>>
        THEN outcome[c] = Raise("ApiException", <<MsgRequestFailed, MsgNoProxies>>)
        ELSE IF k = 0
        THEN outcome[c] = Raise("ApiException", <<MsgRequestFailed, MsgAllFailed>>)
        ELSE /\ fetch[c] = Fetched(Response(200, fetch[c].response.text, ps[k], k))
             /\ outcome[c] = Finish(fetch[c])

\* the call is in proxy mode and has its list
ListObtained(c) ==
    /\ pc[c] \in {"attempt", "done", "cancelled"}
    /\ events[c][1].op = "listing"

\* C16: concurrent calls do not interfere: under any interleaving of two
\* suspending calls at their awaits, each proxy-mode call works on the list it
\* fetched itself, attempts the candidates of that list in order from its own
\* position, and ends as it would have ended alone.
C16_NoInterference ==
    \A c \in CallIds :
        ListObtained(c) =>
            /\ proxies[c] = get_free_proxies(listing[c])
            /\ Len(Attempted(c)) = idx[c]
            /\ Attempted(c) = SubSeq(proxies[c], 1, idx[c])
            /\ pc[c] = "done" =>
                  /\ Attempted(c) = AloneAttempts(c)
                  /\ AloneEnds(c)

\* call 1 has returned the page its second candidate served while call 2,
\* with another list, is still waiting for its first candidate
C16_Witness ==
    /\ pc[1] = "done"
    /\ pc[2] = "attempt"
    /\ proxies[1] = <<Endpoint(<<"h1">>), Endpoint(<<"h2">>)>>
    /\ proxies[2] = <<Endpoint(<<"h2">>)>>
    /\ Attempted(1) = proxies[1]
    /\ Attempted(2) = proxies[2]
    /\ outcome[1] = Return(ValueA, INITIAL_STATE)

---------------------------------------------------------------------------
(* Cancellation *)

\* a cancelled call has ended with CancelledError: no value, no ApiException,
\* no request left in flight, and no candidate tried beyond the one it was at
Aborted(c) ==
    /\ pc[c] = "cancelled"
    /\ outcome[c] = Raise("CancelledError", <<>>)
    /\ fetch[c].kind # "return"
    /\ inflight[c] = 0
    /\ Len(Attempted(c)) = idx[c]

\* the step that cancels a call sends nothing, and nothing happens in a call
\* after it was cancelled
NothingAfterCancel ==
    \A c \in cancelled' :
        /\ events'[c] = events[c]
        /\ idx'[c] = idx[c]
        /\ c \in cancelled =>
              /\ pc'[c] = pc[c]
              /\ outcome'[c] = outcome[c]
              /\ fetch'[c] = fetch[c]

\* C17: when the caller cancels the task of a suspending call during the
\* proxy-list fetch, a proxy attempt or the direct request, the call aborts
\* there: the cancellation is not taken for the failure of a candidate, no
\* further candidate is attempted, no result is returned; and a call has at
\* most one network operation in flight at any time.
C17_CancelAborts ==
    /\ [](\A c \in cancelled : Aborted(c))
    /\ [](\A c \in CallIds : inflight[c] \in {0, 1})
    /\ [][NothingAfterCancel]_vars

\* cancelled while the first of two candidates was being tried
C17_Witness ==
    /\ 1 \in cancelled
    /\ pc[1] = "cancelled"
    /\ Len(proxies[1]) = 2
    /\ Attempted(1) = <<proxies[1][1]>>
    /\ outcome[1] = Raise("CancelledError", <<>>)
    /\ inflight[1] = 0

---------------------------------------------------------------------------
(* The response status in the two modes *)

DirectMode(c) == pc[c] # "idle" /\ events[c][1].op = "direct"

ProxyMode(c) == pc[c] # "idle" /\ events[c][1].op = "listing"

\* the extractor's answer for a text, as the orchestrator hands it on
Handed(text) ==
    LET r == _process_content(text)
    IN  IF r.kind = "raise"
        THEN Raise("ApiException", <<MsgRequestFailed>> \o r.msg)
        ELSE r

\* C18: in direct mode the response status is not looked at: the body of a
\* direct response of any status goes to the extractor, and a call that ran
\* to its end failed only if the transport failed or the extractor did; in
\* proxy mode only the body of a status-200 response reaches the extractor.
C18_StatusIgnoredDirect ==
    \A c \in CallIds :
        /\ (pc[c] = "done" /\ DirectMode(c)) =>
              /\ fetch[c].kind = "return" => outcome[c] = Handed(fetch[c].response.text)
              /\ outcome[c].kind = "raise" =>
                    \/ fetch[c].kind = "raise" /\ fetch[c].exc = "TransportError"
                    \/ /\ fetch[c].kind = "return"
                       /\ _process_content(fetch[c].response.text).kind = "raise"
        /\ (pc[c] = "done" /\ ProxyMode(c)) =>
              /\ fetch[c].kind = "return" =>
                    /\ fetch[c].response.status = 200
                    /\ outcome[c] = Handed(fetch[c].response.text)
              /\ fetch[c].kind = "raise" =>
                    outcome[c] = Raise("ApiException", <<MsgRequestFailed>> \o fetch[c].msg)

\* a direct response of status 403 whose text holds the state: the state is
\* returned
C18_Witness ==
    \E c \in CallIds :
        /\ pc[c] = "done"
        /\ DirectMode(c)
        /\ variant[c] = "async"
        /\ fetch[c].kind = "return"
        /\ fetch[c].response.status = 403
        /\ fetch[c].response.text = SegInitialA
        /\ outcome[c] = Return(ValueA, INITIAL_STATE)

---------------------------------------------------------------------------
(* No way back from the first pattern *)

\* C19: once the window.__INITIAL_STATE__ pattern has matched, the extractor
\* does not search for the __NEXT_DATA__ pattern; when the group captured is
\* not valid JSON the call fails as unparsable, also on a page that holds a
\* __NEXT_DATA__ block of valid JSON.
C19_NoFallback ==
    (Extracted /\ HasInitialState(content)) =>
        /\ steps = <<Call("re.search", INITIAL_STATE), Call("json.loads", INITIAL_STATE)>>
        /\ extracted.type # NEXT_DATA
        /\ ~JsonValid(SearchInitialState(content).group1) =>
              extracted = Raise("ApiException", <<MsgUnparsable>>)

\* an unparsable window.__INITIAL_STATE__ assignment followed by a
\* __NEXT_DATA__ block of valid JSON
C19_Witness ==
    /\ Extracted
    /\ HasInitialState(content)
    /\ ~JsonValid(SearchInitialState(content).group1)
    /\ HasNextData(content)
    /\ JsonValid(SearchNextData(content).group1)
    /\ extracted = Raise("ApiException", <<MsgUnparsable>>)
    /\ Call("re.search", NEXT_DATA) \notin Called

---------------------------------------------------------------------------
(* USE_PROXY changed by the application while a call runs *)

\* os.environ["USE_PROXY"] is assigned or deleted
Setenv ==
    /\ \E v \in EnvValues \ {environ} : environ' = v
    /\ UNCHANGED <<allowed, callVars, extractVars, sourceVars>>

NextEnv == Next \/ Setenv

SpecEnv == Init /\ [][NextEnv]_vars

\* the spellings of the word true
TrueWords ==
    {<<a, b, c, d>> : a \in {"t", "T"}, b \in {"r", "R"}, c \in {"u", "U"}, d \in {"e", "E"}}

\* the value of USE_PROXY a call found selects its mode for good
ReadOnce ==
    \A c \in CallIds :
        pc[c] # "idle" =>
            /\ env'[c] = env[c]
            /\ events'[c][1] = events[c][1]

\* C20: a call runs in proxy mode if and only if the value of USE_PROXY it
\* finds when it selects its strategy is, lower-cased, the string true; any
\* other value (1, yes, on, the empty string) and an unset variable select
\* direct mode.  The value is read once per call: a later change of the
\* variable does not touch the call.
C20_TrueOnly ==
    /\ [](\A c \in CallIds :
            pc[c] # "idle" =>
                /\ ProxyMode(c) <=> (env[c].set /\ env[c].value \in TrueWords)
                /\ DirectMode(c) <=> ~(env[c].set /\ env[c].value \in TrueWords))
    /\ [][ReadOnce]_vars

\* a call started under USE_PROXY=TRUE tries its second proxy after the
\* variable was set to 1
C20_Witness ==
    /\ pc[1] = "attempt"
    /\ env[1] = SetTo(<<"T", "R", "U", "E">>)
    /\ environ = SetTo(<<"1">>)
    /\ ProxyMode(1)
    /\ idx[1] = 2

====
